---------------------------- MODULE Spec2Model ----------------------------
(***************************************************************************)
(* Model of the GY521 accelerometer/gyroscope driver                       *)
(* (src/libraries/GY521/GY521.cpp, version 0.3.7).                         *)
(*                                                                         *)
(* Every public method of the driver is one action.  The two-wire bus is   *)
(* the environment: the status of each endTransmission(), the byte count   *)
(* of each requestFrom() and the bytes the device delivers are inputs of   *)
(* the action.  The device keeps its three writable registers in dev.      *)
(*                                                                         *)
(* Number representation.  The driver's float fields are held as exact     *)
(* fixed-point integers:                                                   *)
(*   _raw2g, _raw2dps    multiples of RAW2G_FACTOR, RAW2DPS_FACTOR         *)
(*   _ax.._az, axe..aze  multiples of RAW2G_FACTOR g      (1/16384 g)      *)
(*   _gx.._gz, gxe..gze  multiples of RAW2DPS_FACTOR deg/s (1/131 deg/s)   *)
(*   _gax.._gaz, _yaw    multiples of RAW2DPS_FACTOR * 1e-6 degrees        *)
(*   _temperature        multiples of 1/TempDen degrees Celsius            *)
(* The tilt angles and the blended angles are kept as terms over the       *)
(* values they are computed from (Atan, Blend), since atan and sqrt have   *)
(* no exact integer form.  The 32-bit clocks millis() and micros() are     *)
(* kept modulo ClockMod.                                                   *)
(***************************************************************************)
EXTENDS Integers, Sequences, FiniteSets, TLC

\* ------------------------------------------------------------------ bounds

\* modulus of the uint32_t clocks millis() and micros() (2^32 in the code)
ClockMod == 4

\* largest magnitude an angle accumulator may reach before reads stop
MaxAngle == 6

\* number of calls and clock ticks in a run
MaxSteps == 6

\* number of those that may be connectivity, register or sensitivity calls
MaxConfigSteps == 3

\* ------------------------------------------------------- program constants

GY521_OK == 0
GY521_THROTTLED == 1
GY521_ERROR_READ == -1
GY521_ERROR_WRITE == -2
GY521_THROTTLE_TIME == 10
GY521_WAKEUP == 0

\* register names (GY521_registers.h)
GY521_PWR_MGMT_1 == "PWR_MGMT_1"
GY521_ACCEL_CONFIG == "ACCEL_CONFIG"
GY521_GYRO_CONFIG == "GYRO_CONFIG"
GY521_ACCEL_XOUT_H == "ACCEL_XOUT_H"
GY521_TEMP_OUT_H == "TEMP_OUT_H"
GY521_GYRO_XOUT_H == "GYRO_XOUT_H"

\* 1 / RAW2G_FACTOR and 1 / RAW2DPS_FACTOR
RAW2G_DEN == 16384
RAW2DPS_DEN == 131

\* temperature fixed point: 1/340 degree per LSB, in units of 1/TempDen
TempDen == 34000
TempPerLsb == 100
TempOffset == 1242020

\* ------------------------------------------------------------ environment

\* results of TwoWire::endTransmission(): 0 acknowledged, 2 address NACK
EndCodes == {0, 2}

\* byte counts TwoWire::requestFrom() may report for a request of size k
Counts(k) == {k - 1, k, k + 1}

\* the 14 data registers ACCEL_XOUT_H .. GYRO_ZOUT_L as the device holds them
Frames ==
  { <<32, 0,  0, 0,  64, 0,  19, 136,  0, 0,  0, 0,  0, 0>>,
    <<255, 255,  0, 1,  64, 0,  1, 84,  0, 1,  255, 255,  0, 2>> }

\* values a caller passes to setThrottleTime()
ThrottleTimes == {0, 2}

\* bias vectors <<axe, aye, aze, gxe, gye, gze>> a caller stores
Biases == { <<0, 0, 0, 0, 0, 0>>, <<1, 0, 0, 0, 0, 1>> }

\* sensitivity codes a caller passes (uint8_t)
Codes == {0, 1, 2, 3, 4, 255}

\* register values a caller passes to setRegister()
RegValues == {0, 255}

DevRegs == {GY521_PWR_MGMT_1, GY521_ACCEL_CONFIG, GY521_GYRO_CONFIG}

\* ---------------------------------------------------------------- helpers

ToUint8(x) == x % 256

ToInt8(x) == LET u == x % 256 IN IF u >= 128 THEN u - 256 ELSE u

ToInt16(x) == LET u == x % 65536 IN IF u >= 32768 THEN u - 65536 ELSE u

Shl(x, k) == x * (2 ^ k)

\* (val >> 3) & 3
Bits34(val) == (val \div 8) % 4

\* val & 0xE7
MaskE7(val) == val - 8 * Bits34(val)

\* fault: the low byte is taken first
WireRead2LowFirst(hi, lo) == ToInt16(Shl(lo, 8) + hi)

\* int16_t tmp = read(); tmp <<= 8; tmp |= read();
WireRead2(hi, lo) == ToInt16(Shl(hi, 8) + lo)

\* word k (0-based) of a byte sequence
Word(bytes, k) == WireRead2(bytes[2 * k + 1], bytes[2 * k + 2])

\* raw * factor + bias
Convert(raw, factor, bias) == raw * factor + bias

\* atan(num / sqrt(d1^2 + d2^2)) * RAD2DEGREES, as a term
Atan(num, d1, d2) == <<"atan", num, d1, d2>>

\* 0.96 * g + 0.04 * a, as a term
Blend(g, a) == <<"blend", g, a>>

ZeroTilt == <<"zero", 0, 0, 0>>
ZeroFused == <<"zero", 0, ZeroTilt>>

\* raw * 0.00294117647 + 36.53
Celsius(raw) == raw * TempPerLsb + TempOffset

\* a float holding the integer raw
RawTemp(raw) == raw * TempDen

\* one bus transaction: a write (beginTransmission .. endTransmission) or a
\* requestFrom
Tx(bytes, st) == [op |-> "tx", bytes |-> bytes, st |-> st]
Rq(size, n) == [op |-> "rq", bytes |-> <<size>>, st |-> n]
\* the bytes taken with TwoWire::read()
Rd(bytes) == [op |-> "rd", bytes |-> bytes, st |-> Len(bytes)]

\* ------------------------------------------------------------------ state

VARIABLES
  _throttle, _throttleTime, _lastTime, _lastMicros, _error,
  _afs, _raw2g, _gfs, _raw2dps,
  _ax, _ay, _az, _aax, _aay, _aaz,
  _gx, _gy, _gz, _gax, _gay, _gaz,
  _pitch, _roll, _yaw, _temperature,
  axe, aye, aze, gxe, gye, gze,
  millis, micros, dev,
  last, steps

throttleVars == <<_throttle, _throttleTime>>
accelVars == <<_ax, _ay, _az, _aax, _aay, _aaz>>
rateVars == <<_gx, _gy, _gz>>
angleVars == <<_gax, _gay, _gaz>>
fusedVars == <<_pitch, _roll, _yaw>>
sensVars == <<_afs, _raw2g, _gfs, _raw2dps>>
biasVars == <<axe, aye, aze, gxe, gye, gze>>
clockVars == <<millis, micros>>

\* what a sampling call may change besides _lastTime and _error
sampleVars == <<accelVars, rateVars, angleVars, fusedVars, _temperature, _lastMicros>>

\* every field of the driver object
driverVars == <<throttleVars, _lastTime, _error, sensVars, sampleVars, biasVars>>

vars == <<driverVars, clockVars, dev, last, steps>>

\* the record of the most recent call: its name, arguments, result and the
\* bus transactions it issued
Call(op, arg, ret, bus) == [op |-> op, arg |-> arg, ret |-> ret, bus |-> bus]

\* a C++ bool as a result
BoolRet(b) == IF b THEN 1 ELSE 0

\* every step is counted, and a run ends after MaxSteps of them
Budget == steps < MaxSteps /\ steps' = steps + 1

\* the connectivity, register and sensitivity calls come first in a run
ConfigBudget == steps < MaxConfigSteps /\ Budget

\* ------------------------------------------------------------------- Init

\* the object after GY521::GY521(): the header's member initialisers, then
\* reset().  The device is asleep with its power-on configuration.
Init ==
  /\ _throttle = TRUE
  /\ _throttleTime = GY521_THROTTLE_TIME
  /\ _lastTime = 0
  /\ _lastMicros = 0
  /\ _error = GY521_OK
  /\ _afs = 0 /\ _raw2g = 1
  /\ _gfs = 0 /\ _raw2dps = 1
  /\ _ax = 0 /\ _ay = 0 /\ _az = 0
  /\ _aax = ZeroTilt /\ _aay = ZeroTilt /\ _aaz = ZeroTilt
  /\ _gx = 0 /\ _gy = 0 /\ _gz = 0
  /\ _gax = 0 /\ _gay = 0 /\ _gaz = 0
  /\ _pitch = ZeroFused /\ _roll = ZeroFused /\ _yaw = 0
  /\ _temperature = 0
  /\ axe = 0 /\ aye = 0 /\ aze = 0
  /\ gxe = 0 /\ gye = 0 /\ gze = 0
  /\ millis = 0 /\ micros = 0
  /\ dev = [r \in DevRegs |-> IF r = GY521_PWR_MGMT_1 THEN 64 ELSE 0]
  /\ last = Call("construct", <<>>, 0, <<>>)
  /\ steps = 0

\* ------------------------------------------------------------ environment

\* some microseconds pass, less than a millisecond
TickMicro ==
  /\ Budget
  /\ \E d \in 1..(ClockMod - 1) : micros' = (micros + d) % ClockMod
  /\ last' = Call("tick", <<0>>, 0, <<>>)
  /\ UNCHANGED <<driverVars, millis, dev>>

\* a millisecond passes
TickMilli ==
  /\ Budget
  /\ millis' = (millis + 1) % ClockMod
  /\ micros' = (micros + 1000) % ClockMod
  /\ last' = Call("tick", <<1>>, 0, <<>>)
  /\ UNCHANGED <<driverVars, dev>>

\* ------------------------------------------------------- throttle settings

setThrottle ==
  \E b \in BOOLEAN :
    /\ Budget
    /\ _throttle' = b
    /\ last' = Call("setThrottle", <<BoolRet(b)>>, 0, <<>>)
    /\ UNCHANGED <<_throttleTime, _lastTime, _error, sensVars, sampleVars,
                   biasVars, clockVars, dev>>

setThrottleTime ==
  \E t \in ThrottleTimes :
    /\ Budget
    /\ _throttleTime' = t
    /\ last' = Call("setThrottleTime", <<t>>, 0, <<>>)
    /\ UNCHANGED <<_throttle, _lastTime, _error, sensVars, sampleVars,
                   biasVars, clockVars, dev>>

\* the caller stores calibration offsets in the public bias fields
setBias ==
  \E v \in Biases :
    /\ Budget
    /\ axe' = v[1] /\ aye' = v[2] /\ aze' = v[3]
    /\ gxe' = v[4] /\ gye' = v[5] /\ gze' = v[6]
    /\ last' = Call("setBias", v, 0, <<>>)
    /\ UNCHANGED <<throttleVars, _lastTime, _error, sensVars, sampleVars,
                   clockVars, dev>>

\* ----------------------------------------------------------------- sampling

\* fault: the comparison is off by one
ThrottledOffByOne(now) ==
  _throttle /\ ((now - _lastTime) % ClockMod) + 1 < _throttleTime

\* if (_throttle) if ((now - _lastTime) < _throttleTime)
Throttled(now) == _throttle /\ ((now - _lastTime) % ClockMod) < _throttleTime

\* fault: only one of the non-zero results counts as a failure
WriteFailedOnOne(st) == st = 1

\* if (_wire->endTransmission() != 0)
WriteFailed(st) == st # 0

\* fault: only a short read counts as a failure
CountShort(n, size) == ToInt8(n) < size

\* int8_t n = _wire->requestFrom(_address, size); if (n != size)
CountWrong(n, size) == ToInt8(n) # size

\* fault: the difference is taken as a signed number
DurationSigned(now) == now - _lastMicros

\* float duration = (now - _lastMicros) * 1e-6, in microseconds
Duration(now) == (now - _lastMicros) % ClockMod

\* the three accelerometer words: scale, bias, tilt angles
DecodeAccel(b) ==
  LET x == Convert(Word(b, 0), _raw2g, axe)
      y == Convert(Word(b, 1), _raw2g, aye)
      z == Convert(Word(b, 2), _raw2g, aze)
  IN /\ _ax' = x /\ _ay' = y /\ _az' = z
     /\ _aax' = Atan(y, x, z)
     /\ _aay' = Atan(-x, y, z)
     /\ _aaz' = Atan(z, x, y)

\* the three gyroscope words, starting at word k: scale, bias, integration
DecodeGyro(b, k) ==
  LET now == micros
      duration == Duration(now)
      x == Convert(Word(b, k), _raw2dps, gxe)
      y == Convert(Word(b, k + 1), _raw2dps, gye)
      z == Convert(Word(b, k + 2), _raw2dps, gze)
  IN /\ _gx' = x /\ _gy' = y /\ _gz' = z
     /\ _lastMicros' = now
     /\ _gax' = _gax + x * duration
     /\ _gay' = _gay + y * duration
     /\ _gaz' = _gaz + z * duration

\* the accumulators stay within the model's range
AnglesInRange ==
  \A a \in {_gax', _gay', _gaz'} : a >= -MaxAngle /\ a <= MaxAngle

\* fault: pitch takes the X accumulator and roll the Y accumulator
FuseGyroSwapped ==
  /\ _yaw' = _gaz'
  /\ _pitch' = Blend(_gax', _aay')
  /\ _roll' = Blend(_gay', _aax')

\* yaw, pitch and roll from the accumulators and the tilt angles
Fuse ==
  /\ _yaw' = _gaz'
  /\ _pitch' = Blend(_gay', _aay')
  /\ _roll' = Blend(_gax', _aax')

\* the common part of the sampling calls: the failed register select and the
\* failed burst read
SampleFailed(op, ret, bus) ==
  /\ _error' = ret
  /\ last' = Call(op, <<>>, ret, bus)
  /\ UNCHANGED sampleVars

\* what a successful read() stores
readOk(b) ==
  /\ DecodeAccel(b)
  /\ _temperature' = Celsius(Word(b, 3))
  /\ DecodeGyro(b, 4)
  /\ AnglesInRange
  /\ Fuse

read ==
  LET now == millis
  IN /\ Budget
     /\ IF Throttled(now)
        THEN /\ last' = Call("read", <<>>, GY521_THROTTLED, <<>>)
             /\ UNCHANGED <<driverVars, clockVars, dev>>
        ELSE /\ _lastTime' = now
             /\ UNCHANGED <<throttleVars, sensVars, biasVars, clockVars, dev>>
             /\ \E st \in EndCodes :
                  LET sel == Tx(<<GY521_ACCEL_XOUT_H>>, st)
                  IN IF WriteFailed(st)
                     THEN SampleFailed("read", GY521_ERROR_WRITE, <<sel>>)
                     ELSE \E n \in Counts(14) :
                       LET rq == Rq(14, n)
                       IN IF CountWrong(n, 14)
                          THEN SampleFailed("read", GY521_ERROR_READ, <<sel, rq>>)
                          ELSE \E f \in Frames :
                            LET b == SubSeq(f, 1, 14)
                            IN /\ readOk(b)
                               /\ UNCHANGED _error
                               /\ last' = Call("read", <<>>, GY521_OK,
                                               <<sel, rq, Rd(b)>>)

\* fault: the timing reference is taken as in read()
readAccelOkTiming(b) ==
  /\ DecodeAccel(b)
  /\ _lastMicros' = micros
  /\ UNCHANGED <<rateVars, angleVars, fusedVars, _temperature>>

\* what a successful readAccel() stores
readAccelOk(b) ==
  /\ DecodeAccel(b)
  /\ UNCHANGED <<rateVars, angleVars, fusedVars, _temperature, _lastMicros>>

readAccel ==
  LET now == millis
  IN /\ Budget
     /\ IF Throttled(now)
        THEN /\ last' = Call("readAccel", <<>>, GY521_THROTTLED, <<>>)
             /\ UNCHANGED <<driverVars, clockVars, dev>>
        ELSE /\ _lastTime' = now
             /\ UNCHANGED <<throttleVars, sensVars, biasVars, clockVars, dev>>
             /\ \E st \in EndCodes :
                  LET sel == Tx(<<GY521_ACCEL_XOUT_H>>, st)
                  IN IF WriteFailed(st)
                     THEN SampleFailed("readAccel", GY521_ERROR_WRITE, <<sel>>)
                     ELSE \E n \in Counts(6) :
                       LET rq == Rq(6, n)
                       IN IF CountWrong(n, 6)
                          THEN SampleFailed("readAccel", GY521_ERROR_READ, <<sel, rq>>)
                          ELSE \E f \in Frames :
                            LET b == SubSeq(f, 1, 6)
                            IN /\ readAccelOk(b)
                               /\ UNCHANGED _error
                               /\ last' = Call("readAccel", <<>>, GY521_OK,
                                               <<sel, rq, Rd(b)>>)

\* what a successful readGyro() stores
readGyroOk(b) ==
  /\ DecodeGyro(b, 0)
  /\ AnglesInRange
  /\ UNCHANGED <<accelVars, fusedVars, _temperature>>

readGyro ==
  LET now == millis
  IN /\ Budget
     /\ IF Throttled(now)
        THEN /\ last' = Call("readGyro", <<>>, GY521_THROTTLED, <<>>)
             /\ UNCHANGED <<driverVars, clockVars, dev>>
        ELSE /\ _lastTime' = now
             /\ UNCHANGED <<throttleVars, sensVars, biasVars, clockVars, dev>>
             /\ \E st \in EndCodes :
                  LET sel == Tx(<<GY521_GYRO_XOUT_H>>, st)
                  IN IF WriteFailed(st)
                     THEN SampleFailed("readGyro", GY521_ERROR_WRITE, <<sel>>)
                     ELSE \E n \in Counts(6) :
                       LET rq == Rq(6, n)
                       IN IF CountWrong(n, 6)
                          THEN SampleFailed("readGyro", GY521_ERROR_READ, <<sel, rq>>)
                          ELSE \E f \in Frames :
                            LET b == SubSeq(f, 9, 14)
                            IN /\ readGyroOk(b)
                               /\ UNCHANGED _error
                               /\ last' = Call("readGyro", <<>>, GY521_OK,
                                               <<sel, rq, Rd(b)>>)

\* what a successful readTemperature() stores
readTemperatureOk(b) ==
  /\ _temperature' = RawTemp(Word(b, 0))
  /\ UNCHANGED <<accelVars, rateVars, angleVars, fusedVars, _lastMicros>>

\* readTemperature() from its first bus transaction on
TemperatureBurst ==
  /\ UNCHANGED <<throttleVars, _lastTime, sensVars, biasVars, clockVars, dev>>
  /\ \E st \in EndCodes :
       LET sel == Tx(<<GY521_TEMP_OUT_H>>, st)
       IN IF WriteFailed(st)
          THEN SampleFailed("readTemperature", GY521_ERROR_WRITE, <<sel>>)
          ELSE \E n \in Counts(2) :
            LET rq == Rq(2, n)
            IN IF CountWrong(n, 2)
               THEN SampleFailed("readTemperature", GY521_ERROR_READ, <<sel, rq>>)
               ELSE \E f \in Frames :
                 LET b == SubSeq(f, 7, 8)
                 IN /\ readTemperatureOk(b)
                    /\ UNCHANGED _error
                    /\ last' = Call("readTemperature", <<>>, GY521_OK,
                                    <<sel, rq, Rd(b)>>)

\* fault: the throttle check of the other reads
readTemperatureThrottled ==
  /\ Budget
  /\ IF Throttled(millis)
     THEN /\ last' = Call("readTemperature", <<>>, GY521_THROTTLED, <<>>)
          /\ UNCHANGED <<driverVars, clockVars, dev>>
     ELSE TemperatureBurst

\* DO NOT THROTTLE
readTemperature ==
  /\ Budget
  /\ TemperatureBurst

\* ----------------------------------------------------------- connectivity

\* the device takes a register write when the transaction is acknowledged
DevWrite(reg, value, st) ==
  IF st = 0 /\ reg \in DevRegs THEN [dev EXCEPT ![reg] = value] ELSE dev

\* GY521::isConnected(): a zero-length transaction
isConnected ==
  \E st \in EndCodes :
    /\ ConfigBudget
    /\ last' = Call("isConnected", <<>>, BoolRet(st = 0), <<Tx(<<>>, st)>>)
    /\ UNCHANGED <<driverVars, clockVars, dev>>

\* GY521::wakeup(): PWR_MGMT_1 := GY521_WAKEUP
wakeup ==
  \E st \in EndCodes :
    /\ ConfigBudget
    /\ dev' = DevWrite(GY521_PWR_MGMT_1, GY521_WAKEUP, st)
    /\ last' = Call("wakeup", <<>>, BoolRet(st = 0),
                    <<Tx(<<GY521_PWR_MGMT_1, GY521_WAKEUP>>, st)>>)
    /\ UNCHANGED <<driverVars, clockVars>>

\* fault: the wake command is sent whatever the presence check said
BeginWakesAlways(stPresence) == TRUE

\* if (isConnected()) return wakeup(); return false;
BeginWakes(stPresence) == stPresence = 0

\* GY521::begin()
begin ==
  \E st1 \in EndCodes :
    LET presence == Tx(<<>>, st1)
    IN /\ ConfigBudget
       /\ UNCHANGED <<driverVars, clockVars>>
       /\ IF BeginWakes(st1)
          THEN \E st2 \in EndCodes :
                 /\ dev' = DevWrite(GY521_PWR_MGMT_1, GY521_WAKEUP, st2)
                 /\ last' = Call("begin", <<>>, BoolRet(st2 = 0),
                                 <<presence, Tx(<<GY521_PWR_MGMT_1, GY521_WAKEUP>>, st2)>>)
          ELSE /\ last' = Call("begin", <<>>, BoolRet(FALSE), <<presence>>)
               /\ UNCHANGED dev

\* GY521::reset()
reset ==
  /\ Budget
  /\ _throttleTime' = GY521_THROTTLE_TIME
  /\ _ax' = 0 /\ _ay' = 0 /\ _az' = 0
  /\ _aax' = ZeroTilt /\ _aay' = ZeroTilt /\ _aaz' = ZeroTilt
  /\ _gx' = 0 /\ _gy' = 0 /\ _gz' = 0
  /\ _pitch' = ZeroFused /\ _roll' = ZeroFused /\ _yaw' = 0
  /\ last' = Call("reset", <<>>, 0, <<>>)
  /\ UNCHANGED <<_throttle, _lastTime, _lastMicros, _error, sensVars, angleVars,
                 _temperature, biasVars, clockVars, dev>>

\* -------------------------------------------------------- register access

\* GY521::setRegister(reg, value): the transaction, _error after it and the
\* value returned (uint8_t)
SetRegisterBus(reg, value, st) == <<Tx(<<reg, value>>, st)>>
SetRegisterError(err, st) == IF WriteFailed(st) THEN GY521_ERROR_WRITE ELSE err
SetRegisterRet(st) ==
  IF WriteFailed(st) THEN ToUint8(GY521_ERROR_WRITE) ELSE GY521_OK

\* GY521::getRegister(reg): the transactions, _error after it and the value
\* returned (uint8_t), for endTransmission() = st and requestFrom() = n
GetRegisterBus(reg, st, n) ==
  IF WriteFailed(st) THEN <<Tx(<<reg>>, st)>>
  ELSE IF ToUint8(n) # 1 THEN <<Tx(<<reg>>, st), Rq(1, n)>>
  ELSE <<Tx(<<reg>>, st), Rq(1, n), Rd(<<dev[reg]>>)>>
\* fault: the byte count of the register read is not checked
GetRegisterErrorNoCount(err, st, n) ==
  IF WriteFailed(st) THEN GY521_ERROR_WRITE ELSE err
GetRegisterError(err, st, n) ==
  IF WriteFailed(st) THEN GY521_ERROR_WRITE
  ELSE IF ToUint8(n) # 1 THEN GY521_ERROR_READ
  ELSE err
GetRegisterRet(reg, st, n) ==
  IF WriteFailed(st) THEN ToUint8(GY521_ERROR_WRITE)
  ELSE IF ToUint8(n) # 1 THEN ToUint8(GY521_ERROR_READ)
  ELSE dev[reg]

setRegister ==
  \E reg \in {GY521_ACCEL_CONFIG, GY521_GYRO_CONFIG}, value \in RegValues,
     st \in EndCodes :
    /\ ConfigBudget
    /\ _error' = SetRegisterError(_error, st)
    /\ dev' = DevWrite(reg, value, st)
    /\ last' = Call("setRegister", <<reg, value>>, SetRegisterRet(st),
                    SetRegisterBus(reg, value, st))
    /\ UNCHANGED <<throttleVars, _lastTime, sensVars, sampleVars, biasVars,
                   clockVars>>

getRegister ==
  \E reg \in {GY521_ACCEL_CONFIG, GY521_GYRO_CONFIG}, st \in EndCodes,
     n \in Counts(1) :
    /\ ConfigBudget
    /\ _error' = GetRegisterError(_error, st, n)
    /\ last' = Call("getRegister", <<reg>>, GetRegisterRet(reg, st, n),
                    GetRegisterBus(reg, st, n))
    /\ UNCHANGED <<throttleVars, _lastTime, sensVars, sampleVars, biasVars,
                   clockVars, dev>>

\* ------------------------------------------------------------ sensitivity

\* _afs = as; if (_afs > 3) _afs = 3;
Clamp(c) == IF c > 3 THEN 3 ELSE c

\* fault: the other bits of the register are dropped
WithBits34Only(val, fs) == Shl(fs, 3)

\* val &= 0xE7; val |= (fs << 3);
WithBits34(val, fs) == MaskE7(val) + Shl(fs, 3)

\* no need to write same value: if (((val >> 3) & 3) != fs)
NeedsWrite(val, fs) == Bits34(val) # fs

\* a sensitivity setter on config register reg with clamped code fs:
\* <<result, _error after, device after, bus transactions>> for the bus
\* results st1, n (getRegister) and st2 (setRegister)
SetSensitivity(reg, fs, st1, n, st2) ==
  LET val == GetRegisterRet(reg, st1, n)
      err1 == GetRegisterError(_error, st1, n)
      bus1 == GetRegisterBus(reg, st1, n)
      val2 == WithBits34(val, fs)
  IN IF err1 # 0
     THEN <<FALSE, err1, dev, bus1>>
     ELSE IF NeedsWrite(val, fs)
     THEN IF SetRegisterRet(st2) # GY521_OK
          THEN <<FALSE, SetRegisterError(err1, st2), dev,
                 bus1 \o SetRegisterBus(reg, val2, st2)>>
          ELSE <<TRUE, SetRegisterError(err1, st2), DevWrite(reg, val2, st2),
                 bus1 \o SetRegisterBus(reg, val2, st2)>>
     ELSE <<TRUE, err1, dev, bus1>>

\* fault: 1 + fs for 1 << fs
ScaleForLinear(fs) == 1 + fs

\* _raw2g = (1 << _afs) * RAW2G_FACTOR, as a multiple of the factor
ScaleFor(fs) == Shl(1, fs)

setAccelSensitivity ==
  \E as \in Codes, st1 \in EndCodes, n \in Counts(1), st2 \in EndCodes :
    LET fs == Clamp(as)
        r == SetSensitivity(GY521_ACCEL_CONFIG, fs, st1, n, st2)
    IN /\ ConfigBudget
       /\ _afs' = fs
       /\ _error' = r[2]
       /\ dev' = r[3]
       /\ _raw2g' = IF r[1] THEN ScaleFor(fs) ELSE _raw2g
       /\ last' = Call("setAccelSensitivity", <<as>>, BoolRet(r[1]), r[4])
       /\ UNCHANGED <<throttleVars, _lastTime, _gfs, _raw2dps, sampleVars,
                      biasVars, clockVars>>

setGyroSensitivity ==
  \E gs \in Codes, st1 \in EndCodes, n \in Counts(1), st2 \in EndCodes :
    LET fs == Clamp(gs)
        r == SetSensitivity(GY521_GYRO_CONFIG, fs, st1, n, st2)
    IN /\ ConfigBudget
       /\ _gfs' = fs
       /\ _error' = r[2]
       /\ dev' = r[3]
       /\ _raw2dps' = IF r[1] THEN ScaleFor(fs) ELSE _raw2dps
       /\ last' = Call("setGyroSensitivity", <<gs>>, BoolRet(r[1]), r[4])
       /\ UNCHANGED <<throttleVars, _lastTime, _afs, _raw2g, sampleVars,
                      biasVars, clockVars>>

\* a sensitivity getter on config register reg: <<result (uint8_t), _error
\* after, cached code after, bus transactions>>
GetSensitivity(reg, cached, st, n) ==
  LET val == GetRegisterRet(reg, st, n)
      err == GetRegisterError(_error, st, n)
  IN IF err # GY521_OK
     THEN <<ToUint8(err), err, cached, GetRegisterBus(reg, st, n)>>
     ELSE <<Bits34(val), err, Bits34(val), GetRegisterBus(reg, st, n)>>

getAccelSensitivity ==
  \E st \in EndCodes, n \in Counts(1) :
    LET r == GetSensitivity(GY521_ACCEL_CONFIG, _afs, st, n)
    IN /\ ConfigBudget
       /\ _error' = r[2]
       /\ _afs' = r[3]
       /\ last' = Call("getAccelSensitivity", <<>>, r[1], r[4])
       /\ UNCHANGED <<throttleVars, _lastTime, _raw2g, _gfs, _raw2dps,
                      sampleVars, biasVars, clockVars, dev>>

getGyroSensitivity ==
  \E st \in EndCodes, n \in Counts(1) :
    LET r == GetSensitivity(GY521_GYRO_CONFIG, _gfs, st, n)
    IN /\ ConfigBudget
       /\ _error' = r[2]
       /\ _gfs' = r[3]
       /\ last' = Call("getGyroSensitivity", <<>>, r[1], r[4])
       /\ UNCHANGED <<throttleVars, _lastTime, _afs, _raw2g, _raw2dps,
                      sampleVars, biasVars, clockVars, dev>>

\* ------------------------------------------------------------ specification

\* sampling: the clocks, the throttle settings, reset and the four reads
Next ==
  \/ TickMicro
  \/ TickMilli
  \/ setThrottle
  \/ setThrottleTime
  \/ setBias
  \/ reset
  \/ read
  \/ readAccel
  \/ readGyro
  \/ readTemperature

Spec == Init /\ [][Next]_vars

\* configuration: connectivity, register access and the sensitivity calls,
\* with readTemperature() as the sampling call that may fail among them
NextConfig ==
  \/ begin
  \/ isConnected
  \/ wakeup
  \/ setRegister
  \/ getRegister
  \/ setAccelSensitivity
  \/ getAccelSensitivity
  \/ setGyroSensitivity
  \/ getGyroSensitivity
  \/ readTemperature

SpecConfig == Init /\ [][NextConfig]_vars

\* full reads at every sensitivity: the two sensitivity setters come first,
\* then biases, the throttle switch, the microsecond clock and read()
NextScaled ==
  \/ setAccelSensitivity
  \/ setGyroSensitivity
  \/ setBias
  \/ setThrottle
  \/ TickMicro
  \/ read

SpecScaled == Init /\ [][NextScaled]_vars

\* ------------------------------------------------------------------ claims

\* the reads that check the throttle, and all four sampling calls
ThrottledOps == {"read", "readAccel", "readGyro"}
SamplingOps == ThrottledOps \cup {"readTemperature"}

\* the burst size each sampling call requests
BurstSize(op) ==
  CASE op = "read" -> 14
    [] op = "readAccel" -> 6
    [] op = "readGyro" -> 6
    [] op = "readTemperature" -> 2

\* the indices of the entries of kind k in a bus log
Entries(bus, k) == {i \in 1..Len(bus) : bus[i].op = k}

\* elapsed milliseconds since _lastTime, as the unsigned difference
Elapsed == (millis - _lastTime) % ClockMod

\* C1: with throttling enabled, read(), readAccel() or readGyro() called
\* while less than _throttleTime ms have passed since _lastTime returns
\* THROTTLED, issues no bus transaction and leaves every field of the
\* driver as it was.
C1_ThrottledCallChangesNothing ==
  [][ (last'.op \in ThrottledOps /\ _throttle /\ Elapsed < _throttleTime)
        => /\ last'.ret = GY521_THROTTLED
           /\ last'.bus = <<>>
           /\ UNCHANGED driverVars ]_vars

\* a call is throttled after samples have been stored
C1_Witness ==
  /\ last.op \in ThrottledOps
  /\ last.ret = GY521_THROTTLED
  /\ _ax # 0
  /\ _temperature # 0

\* C2: a sampling call whose register-select write is not acknowledged
\* returns WRITE_ERROR, issues no burst read request and leaves all sampled
\* and fused state and the timing reference as they were.
C2_WriteErrorKeepsSamples ==
  [][ (/\ last'.op \in SamplingOps
       /\ last'.bus # <<>>
       /\ last'.bus[1].st # 0)
        => /\ last'.ret = GY521_ERROR_WRITE
           /\ Entries(last'.bus, "rq") = {}
           /\ Entries(last'.bus, "rd") = {}
           /\ UNCHANGED sampleVars ]_vars

\* a register select fails after samples have been stored
C2_Witness ==
  /\ last.op \in SamplingOps
  /\ last.ret = GY521_ERROR_WRITE
  /\ last.bus[1].st # 0
  /\ _ax # 0
  /\ _temperature # 0

\* C3: a sampling call whose register select was acknowledged and whose
\* burst read reports a byte count other than the requested size (14, 6, 6,
\* 2) returns READ_ERROR, takes no byte and leaves all sampled and fused
\* state and the timing reference as they were; a call that returns OK got
\* exactly the requested count.
C3_ReadErrorKeepsSamples ==
  [][ (/\ last'.op \in SamplingOps
       /\ Len(last'.bus) >= 2
       /\ last'.bus[1].st = 0)
        => /\ last'.bus[2].op = "rq"
           /\ last'.bus[2].bytes = <<BurstSize(last'.op)>>
           /\ last'.bus[2].st # BurstSize(last'.op)
                => /\ last'.ret = GY521_ERROR_READ
                   /\ Entries(last'.bus, "rd") = {}
                   /\ UNCHANGED sampleVars
           /\ last'.bus[2].st = BurstSize(last'.op)
                => /\ last'.ret = GY521_OK
                   /\ Entries(last'.bus, "rd") = {3} ]_vars

\* a burst read delivers one byte too many after samples have been stored
C3_Witness ==
  /\ last.op \in SamplingOps
  /\ last.ret = GY521_ERROR_READ
  /\ Len(last.bus) = 2
  /\ last.bus[2].st = BurstSize(last.op) + 1
  /\ _ax # 0
  /\ _temperature # 0

\* C4: readTemperature() never returns THROTTLED, always starts its bus
\* transaction, and leaves the throttle settings and _lastTime as they were.
C4_TemperatureNeverThrottled ==
  [][ last'.op = "readTemperature"
        => /\ last'.ret # GY521_THROTTLED
           /\ last'.bus # <<>>
           /\ last'.bus[1] \in {Tx(<<GY521_TEMP_OUT_H>>, st) : st \in EndCodes}
           /\ _lastTime' = _lastTime
           /\ UNCHANGED throttleVars ]_vars

\* readTemperature() succeeds at a moment when read() would be throttled,
\* with no time elapsed since the last sample
C4_Witness ==
  /\ last.op = "readTemperature"
  /\ last.ret = GY521_OK
  /\ _throttle
  /\ _ax # 0
  /\ Elapsed = 0
  /\ Elapsed < _throttleTime

\* C5: readAccel(), whatever it returns, leaves the gyro rates, the angle
\* accumulators, pitch/roll/yaw, the temperature and the microsecond timing
\* reference as they were.
C5_AccelReadKeepsGyroState ==
  [][ last'.op = "readAccel"
        => UNCHANGED <<rateVars, angleVars, fusedVars, _temperature, _lastMicros>>
    ]_vars

\* readAccel() succeeds after a full read, with the microsecond clock ahead
\* of the timing reference
C5_Witness ==
  /\ last.op = "readAccel"
  /\ last.ret = GY521_OK
  /\ _gx # 0
  /\ _temperature # 0
  /\ micros # _lastMicros

\* C6: the cached last error equals the outcome of the most recent bus
\* operation: after a sampling call _error is the status the call returned
\* (OK after OK, THROTTLED after THROTTLED), after setRegister() it is the
\* status returned, and after a getRegister() whose transactions all
\* succeeded it is OK.
C6_LastErrorIsLastOutcome ==
  /\ last.op \in SamplingOps => _error = last.ret
  /\ last.op = "setRegister" => ToUint8(_error) = last.ret
  /\ (last.op = "getRegister" /\ Entries(last.bus, "rd") # {})
       => _error = GY521_OK

\* the sensitivity setters and the config register each one works on
SetterOps == {"setAccelSensitivity", "setGyroSensitivity"}
ConfigReg(op) ==
  IF op = "setAccelSensitivity" THEN GY521_ACCEL_CONFIG ELSE GY521_GYRO_CONFIG

\* min(c, 3)
Min3(c) == IF c < 3 THEN c ELSE 3

\* every transaction of a bus log was acknowledged and every request
\* delivered the requested count
BusWorked(bus) ==
  \A i \in 1..Len(bus) :
    /\ bus[i].op = "tx" => bus[i].st = 0
    /\ bus[i].op = "rq" => bus[i].st = bus[i].bytes[1]

\* the register writes (register, value) of a bus log
RegWrites(bus) == {i \in Entries(bus, "tx") : Len(bus[i].bytes) = 2}

\* the register select or the one-byte read of the setter's getRegister()
\* failed
ConfigReadFailed(bus) ==
  \/ bus[1].st # 0
  \/ Len(bus) >= 2 /\ bus[2].op = "rq" /\ bus[2].st # 1

\* C7: a sensitivity setter issues no register write when bits 3-4 of the
\* config register already hold the clamped code, and of two consecutive
\* calls of the same setter with the same code over a working bus at most
\* one writes the register and the second returns true.
C7_SetterIdempotent ==
  [][ (last'.op \in SetterOps /\ BusWorked(last'.bus))
        => /\ Bits34(dev[ConfigReg(last'.op)]) = Min3(last'.arg[1])
                => RegWrites(last'.bus) = {}
           /\ (last.op = last'.op /\ last.arg = last'.arg /\ BusWorked(last.bus))
                => /\ Cardinality(RegWrites(last.bus))
                        + Cardinality(RegWrites(last'.bus)) <= 1
                   /\ last'.ret = BoolRet(TRUE) ]_vars

\* C8: after a successful setAccelSensitivity(c) / setGyroSensitivity(c) the
\* scale factor is (1 << min(c,3)) times the base factor, bits 3-4 of the
\* device's config register are min(c,3), and raw 16384 (raw 131) with zero
\* bias converts to exactly (1 << min(c,3)) g (deg/s).
C8_SetterScalesByPowerOfTwo ==
  /\ (last.op = "setAccelSensitivity" /\ last.ret = BoolRet(TRUE))
       => /\ _raw2g = 2 ^ Min3(last.arg[1])
          /\ Bits34(dev[GY521_ACCEL_CONFIG]) = Min3(last.arg[1])
          /\ Convert(RAW2G_DEN, _raw2g, 0) = (2 ^ Min3(last.arg[1])) * RAW2G_DEN
  /\ (last.op = "setGyroSensitivity" /\ last.ret = BoolRet(TRUE))
       => /\ _raw2dps = 2 ^ Min3(last.arg[1])
          /\ Bits34(dev[GY521_GYRO_CONFIG]) = Min3(last.arg[1])
          /\ Convert(RAW2DPS_DEN, _raw2dps, 0) = (2 ^ Min3(last.arg[1])) * RAW2DPS_DEN

\* both setters have succeeded, one with a clamped code and one that had to
\* write the register of a device holding other bits
C8_Witness ==
  /\ last.op = "setGyroSensitivity"
  /\ last.ret = BoolRet(TRUE)
  /\ last.arg[1] > 3
  /\ RegWrites(last.bus) # {}
  /\ _raw2dps = 8
  /\ _raw2g = 4
  /\ dev[GY521_ACCEL_CONFIG] = 247

\* C9: a sensitivity setter whose config-register read fails, or whose
\* write-back fails, returns false and leaves its scale factor as it was;
\* when the read fails no register write is issued.
C9_FailedSetterKeepsScale ==
  [][ last'.op \in SetterOps
        => /\ ConfigReadFailed(last'.bus)
                => /\ last'.ret = BoolRet(FALSE)
                   /\ RegWrites(last'.bus) = {}
                   /\ UNCHANGED <<_raw2g, _raw2dps, dev>>
           /\ (\E i \in RegWrites(last'.bus) : last'.bus[i].st # 0)
                => /\ last'.ret = BoolRet(FALSE)
                   /\ UNCHANGED <<_raw2g, _raw2dps, dev>>
           /\ last'.ret = BoolRet(FALSE)
                => UNCHANGED <<_raw2g, _raw2dps>> ]_vars

\* a setter fails on its write-back, asked for a code whose scale differs
\* from the one in force
C9_Witness ==
  /\ last.op = "setAccelSensitivity"
  /\ last.ret = BoolRet(FALSE)
  /\ \E i \in RegWrites(last.bus) : last.bus[i].st # 0
  /\ _raw2g = 4
  /\ Min3(last.arg[1]) = 1

\* C10: begin() returns true exactly when the zero-length presence
\* transaction and the wake write (PWR_MGMT_1 := 0x00) are both
\* acknowledged; the wake write follows an acknowledged presence check and
\* is not sent after a failed one, when begin() returns false.
C10_BeginWakesOnlyWhenPresent ==
  last.op = "begin"
    => /\ last.bus[1].op = "tx" /\ last.bus[1].bytes = <<>>
       /\ last.bus[1].st # 0
            => Len(last.bus) = 1 /\ last.ret = BoolRet(FALSE)
       /\ last.bus[1].st = 0
            => /\ Len(last.bus) = 2
               /\ last.bus[2].op = "tx"
               /\ last.bus[2].bytes = <<GY521_PWR_MGMT_1, 0>>
               /\ last.ret = BoolRet(last.bus[2].st = 0)
       /\ last.ret = BoolRet(TRUE) => dev[GY521_PWR_MGMT_1] = 0

\* begin() has woken a sleeping device
C10_Witness ==
  /\ last.op = "begin"
  /\ last.ret = BoolRet(TRUE)
  /\ Len(last.bus) = 2
  /\ dev[GY521_PWR_MGMT_1] = 0

\* the microseconds between the timing reference and the clock
ElapsedMicros == (micros - _lastMicros) % ClockMod

\* C11: reset() zeroes all sample and fusion state: the accel and gyro
\* samples, the tilt angles, the gyro-integrated angle accumulators and
\* pitch/roll/yaw are zero after it, and the yaw of a successful full read
\* that follows reset() is that read's gz times its time delta only.
C11_ResetZeroesAllState ==
  [][ /\ last'.op = "reset"
           => /\ _ax' = 0 /\ _ay' = 0 /\ _az' = 0
              /\ _aax' = ZeroTilt /\ _aay' = ZeroTilt /\ _aaz' = ZeroTilt
              /\ _gx' = 0 /\ _gy' = 0 /\ _gz' = 0
              /\ _gax' = 0 /\ _gay' = 0 /\ _gaz' = 0
              /\ _pitch' = ZeroFused /\ _roll' = ZeroFused /\ _yaw' = 0
      /\ (last.op = "reset" /\ last'.op = "read" /\ last'.ret = GY521_OK)
           => _yaw' = _gz' * ElapsedMicros ]_vars

\* a 16-bit pattern as a two's-complement number
Signed16(u) == IF u >= 32768 THEN u - 65536 ELSE u

\* word k (from 0) of a burst read big-endian
BigEndian(b, k) == Signed16(b[2 * k + 1] * 256 + b[2 * k + 2])

\* the bytes a successful sampling call took from the bus
BurstBytes == last.bus[3].bytes

\* C12: a successful full read() decodes the 14 burst bytes as seven
\* big-endian signed 16-bit words in the order accel X, Y, Z, temperature,
\* gyro X, Y, Z, and stores each word times its scale factor plus its bias
\* (the temperature word times 1/340 plus 36.53); with the scale factor of
\* sensitivity 0 and zero bias the bytes 0x20,0x00, 0x00,0x00, 0x40,0x00
\* give ax = 0.5 g, ay = 0, az = 1.0 g, and 0xFF,0xFF decodes to raw -1.
C12_FullReadDecodesBigEndian ==
  (last.op = "read" /\ last.ret = GY521_OK)
    => /\ Len(BurstBytes) = 14
       /\ _ax = BigEndian(BurstBytes, 0) * _raw2g + axe
       /\ _ay = BigEndian(BurstBytes, 1) * _raw2g + aye
       /\ _az = BigEndian(BurstBytes, 2) * _raw2g + aze
       /\ _temperature = BigEndian(BurstBytes, 3) * (TempDen \div 340)
                            + 3653 * (TempDen \div 100)
       /\ _gx = BigEndian(BurstBytes, 4) * _raw2dps + gxe
       /\ _gy = BigEndian(BurstBytes, 5) * _raw2dps + gye
       /\ _gz = BigEndian(BurstBytes, 6) * _raw2dps + gze
       /\ ( /\ SubSeq(BurstBytes, 1, 6) = <<32, 0, 0, 0, 64, 0>>
            /\ _raw2g = 1 /\ axe = 0 /\ aye = 0 /\ aze = 0 )
            => 2 * _ax = RAW2G_DEN /\ _ay = 0 /\ _az = RAW2G_DEN
       /\ \A k \in 0..6 :
            (BurstBytes[2 * k + 1] = 255 /\ BurstBytes[2 * k + 2] = 255)
              => BigEndian(BurstBytes, k) = -1

\* a full read at accel sensitivity 2 with an X bias has stored the word
\* 0xFFFF as -1 * 4 + 1, and the gyro Z word 0x0002 at gyro sensitivity 1
C12_Witness ==
  /\ last.op = "read"
  /\ last.ret = GY521_OK
  /\ SubSeq(BurstBytes, 1, 2) = <<255, 255>>
  /\ _raw2g = 4 /\ axe = 1 /\ _ax = -3
  /\ _raw2dps = 2 /\ _gz = 5

\* the two failure results of a sampling call
SampleErrors == {GY521_ERROR_WRITE, GY521_ERROR_READ}

\* C13: the throttle timestamp is the time of the last successful sample:
\* it changes only in a read(), readAccel() or readGyro() that returns OK,
\* and a call that fails with WRITE_ERROR or READ_ERROR leaves it as it
\* was, so a retry after a failed read is not throttled because of it.
C13_ThrottleStampOnlyOnSuccess ==
  [][ /\ (last'.op \in ThrottledOps /\ last'.ret \in SampleErrors)
           => UNCHANGED _lastTime
      /\ _lastTime' # _lastTime
           => last'.op \in ThrottledOps /\ last'.ret = GY521_OK ]_vars

\* the sensitivity getters
GetterOps == {"getAccelSensitivity", "getGyroSensitivity"}

\* C14: the sensitivity setters and getters fail only because of a bus
\* error in the same call: when every transaction of a setter is
\* acknowledged and delivers the requested count, the setter returns true
\* and the scale factor is the one of the clamped code; when every
\* transaction of a getter does, the getter returns bits 3-4 of the config
\* register and the cached code is that value -- also after an earlier
\* call has recorded an error.
C14_FailsOnlyOnOwnBusError ==
  /\ (last.op = "setAccelSensitivity" /\ BusWorked(last.bus))
       => last.ret = BoolRet(TRUE) /\ _raw2g = Shl(1, Min3(last.arg[1]))
  /\ (last.op = "setGyroSensitivity" /\ BusWorked(last.bus))
       => last.ret = BoolRet(TRUE) /\ _raw2dps = Shl(1, Min3(last.arg[1]))
  /\ (last.op = "getAccelSensitivity" /\ BusWorked(last.bus))
       => last.ret = Bits34(dev[GY521_ACCEL_CONFIG]) /\ _afs = last.ret
  /\ (last.op = "getGyroSensitivity" /\ BusWorked(last.bus))
       => last.ret = Bits34(dev[GY521_GYRO_CONFIG]) /\ _gfs = last.ret

\* v is 0.96 * g + 0.04 * a (the zero a fresh or reset driver holds is the
\* blend of a zero accumulator and a zero tilt)
IsBlend(v, g, a) ==
  \/ v = Blend(g, a)
  \/ v = ZeroFused /\ g = 0 /\ a = ZeroTilt

\* C15: a successful readGyro() performs fusion: after it yaw is the
\* gyro-integrated Z accumulator the call has just updated, and pitch and
\* roll are the 0.96/0.04 blend of the updated X and Y accumulators with
\* the tilt angles of the last accel read (in the pairing of read(), or
\* with the accumulators exchanged).
C15_GyroReadFuses ==
  (last.op = "readGyro" /\ last.ret = GY521_OK)
    => /\ _yaw = _gaz
       /\ \/ IsBlend(_pitch, _gay, _aay) /\ IsBlend(_roll, _gax, _aax)
          \/ IsBlend(_pitch, _gax, _aay) /\ IsBlend(_roll, _gay, _aax)

\* C16: a successful readTemperature() performs the temperature
\* conversion: for the raw word r it reads, the temperature stored is
\* r * (1/340) + 36.53 degrees Celsius, the value a successful read()
\* stores for the same word (raw 0 gives 36.53, raw 340 gives 37.53).
C16_TemperatureReadConverts ==
  (last.op = "readTemperature" /\ last.ret = GY521_OK)
    => /\ Len(BurstBytes) = 2
       /\ _temperature = BigEndian(BurstBytes, 0) * (TempDen \div 340)
                           + 3653 * (TempDen \div 100)
       /\ BigEndian(BurstBytes, 0) = 340
            => _temperature * 100 = 3753 * TempDen

\* atan(num / sqrt(d1^2 + d2^2)) in degrees; the sum under the root may be
\* written in either order
TiltTerms(num, d1, d2) == {Atan(num, d1, d2), Atan(num, d2, d1)}

\* the tilt from -ax over (ay, az) and the tilt from ay over (ax, az), of
\* the accelerations now stored
TiltFromX == TiltTerms(-_ax, _ay, _az)
TiltFromY == TiltTerms(_ay, _ax, _az)

\* C17 as stated: on a successful full read() yaw is the gyro-integrated Z
\* angle, pitch is 0.96 x gyro-integrated X angle + 0.04 x
\* atan(-ax / sqrt(ay^2 + az^2)), and roll is 0.96 x gyro-integrated Y
\* angle + 0.04 x atan(ay / sqrt(ax^2 + az^2)).
C17_PitchPairsWithGyroX ==
  (last.op = "read" /\ last.ret = GY521_OK)
    => /\ _yaw = _gaz
       /\ \E t \in TiltFromX : _pitch = Blend(_gax, t)
       /\ \E t \in TiltFromY : _roll = Blend(_gay, t)

\* C17 amended: on a successful full read() yaw is the gyro-integrated Z
\* angle, pitch is 0.96 x gyro-integrated Y angle + 0.04 x
\* atan(-ax / sqrt(ay^2 + az^2)) (the field _aay), and roll is 0.96 x
\* gyro-integrated X angle + 0.04 x atan(ay / sqrt(ax^2 + az^2)) (the
\* field _aax), over the samples and accumulators that read has stored.
C17_PitchPairsWithGyroY ==
  (last.op = "read" /\ last.ret = GY521_OK)
    => /\ _yaw = _gaz
       /\ _aay \in TiltFromX /\ _pitch = Blend(_gay, _aay)
       /\ _aax \in TiltFromY /\ _roll = Blend(_gax, _aax)

\* a full read has fused X and Y accumulators that differ
C17_Witness ==
  /\ last.op = "read"
  /\ last.ret = GY521_OK
  /\ _gax # _gay /\ _gax # 0 /\ _gay # 0
  /\ _ax # 0 /\ _ay # 0
  /\ _pitch = Blend(_gay, _aay)

\* v with bits 3-4 replaced by the code c: (v AND 0xE7) OR (c << 3)
ReplaceBits34(v, c) == ((v \div 32) * 32) + (c * 8) + (v % 8)

\* C18: when a sensitivity setter writes, it writes its own config register
\* and the value is (v AND 0xE7) OR (min(c, 3) << 3) for the value v the
\* register held and the code c passed; bits 0-2 and 5-7 of that register
\* are after the call what they were before it, and no other register
\* changes.
C18_SetterChangesOnlyBits34 ==
  [][ last'.op \in SetterOps
        => LET reg == ConfigReg(last'.op)
               v == dev[reg]
           IN /\ \A i \in RegWrites(last'.bus) :
                   /\ last'.bus[i].bytes[1] = reg
                   /\ last'.bus[i].bytes[2]
                        = ReplaceBits34(v, Min3(last'.arg[1]))
              /\ dev'[reg] % 8 = v % 8
              /\ dev'[reg] \div 32 = v \div 32
              /\ \A r \in DevRegs \ {reg} : dev'[r] = dev[r] ]_vars

\* a setter has written code 1 into a register whose other bits are all set
C18_Witness ==
  /\ last.op = "setGyroSensitivity"
  /\ last.ret = BoolRet(TRUE)
  /\ RegWrites(last.bus) # {}
  /\ last.arg = <<1>>
  /\ dev[GY521_GYRO_CONFIG] = 239

\* the calls that integrate the angular rates
AngularOps == {"read", "readGyro"}

\* C19: the integration timing reference is the microsecond time of the
\* previous successful angular read: it changes only in a read() or
\* readGyro() that returns OK, which sets it to the microsecond clock, and
\* the time delta those calls integrate over is the unsigned difference
\* (now - reference) modulo the width of the clock, also when the clock has
\* wrapped since the reference was taken.
C19_TimingReferenceWrapSafe ==
  [][ /\ _lastMicros' # _lastMicros
           => last'.op \in AngularOps /\ last'.ret = GY521_OK
      /\ (last'.op \in AngularOps /\ last'.ret = GY521_OK)
           => /\ _lastMicros' = micros
              /\ _gax' - _gax = _gx' * ElapsedMicros
              /\ _gay' - _gay = _gy' * ElapsedMicros
              /\ _gaz' - _gaz = _gz' * ElapsedMicros
              /\ ElapsedMicros >= 0 /\ ElapsedMicros < ClockMod ]_vars

\* an angular read at clock value 0 has taken the reference back to 0 with
\* a rate integrated over one microsecond: the reference was set by an
\* earlier angular read and the clock has wrapped since
C19_Witness ==
  /\ last.op \in AngularOps
  /\ last.ret = GY521_OK
  /\ _lastMicros = 0
  /\ micros = 0
  /\ _gz = 2
  /\ _gaz = 2

\* C20: the cached sensitivity codes and the scale factors agree in every
\* reachable state: raw2g = (1 << _afs) * (1/16384) and
\* raw2dps = (1 << _gfs) * (1/131), also after a failed setter and after a
\* getter that reads a code other than the cached one.
C20_ScaleMatchesCachedCode ==
  /\ _afs \in 0..3 /\ _raw2g = 2 ^ _afs
  /\ _gfs \in 0..3 /\ _raw2dps = 2 ^ _gfs

=============================================================================
